---- MODULE Spec2Model ----
(***************************************************************************)
(* Model of jy02140251/proxy-manager.                                      *)
(*                                                                         *)
(* The repository ships two independent selection engines:                 *)
(*   - scheduler.py: ProxyScheduler, a dict of ProxyStats keyed by proxy   *)
(*     url with a round-robin cursor, cooldown after repeated failures     *)
(*     and an asyncio lock around get_next;                                *)
(*   - api.py wiring ProxyManager (pool list + SQLite table), ProxyRotator *)
(*     (cursor over the ACTIVE proxies) and HealthChecker (probes).        *)
(* They share no state.  A behaviour of this model runs one of them: the   *)
(* variable component, fixed by Init, says which one, and the variable     *)
(* scope, also fixed by Init, bounds the calls made in it.                 *)
(* HealthChecker.check_batch is modelled task by task: each bounded_check  *)
(* waits for the semaphore, runs check_single up to its await, and ends.   *)
(*                                                                         *)
(* time.time() is modelled by the integer clock now, advanced by Tick.     *)
(* The write-only telemetry fields of ProxyStats (last_used, last_success, *)
(* avg_response_time) and of Proxy (last_check_time, created_at) are read  *)
(* by no selection or cooldown code and are left out of the records.       *)
(***************************************************************************)
EXTENDS Integers, Sequences, FiniteSets, TLC

\* ---------------------------------------------------------------- bounds
MaxCalls == 4        \* rotation scope: cap on the sum of total_requests in the pool
MaxReports == 4      \* cooldown scope: cap on successful + failed requests in the pool
MaxTime == 2         \* last clock value
MaxMaxFailures == 2  \* largest max_failures tried
FewCalls == 2        \* cooldown scope: cap on the sum of total_requests
FewReports == 1      \* rotation scope: cap on successful + failed requests
SomeReports == 2     \* membership scope: cap on successful + failed requests
CooldownSeconds == 1 \* cooldown_seconds, in clock ticks
MaxPool == 3         \* api: largest ProxyManager pool
MaxProbes == 3       \* api: cap on success_count + failure_count in the pool
MaxRotCalls == 4     \* api: cursor-advancing rotator calls per active list
HcMaxFailures == 2   \* api: HealthChecker.max_failures
FewProbes == 1       \* manager scope: cap on success_count + failure_count in the pool
FewRotCalls == 1     \* manager scope: cursor-advancing rotator calls per active list
MaxBatches == 2      \* batch scope: check_batch calls
MaxConcurrency == 2  \* batch scope: largest concurrency argument of check_batch

Urls == {"A", "B", "C"}
Callers == {"c1", "c2"}
None == "None"
\* ProxyRotator.get_next returning None (Optional[Proxy]): no identity
NoProxy == <<>>

\* RotationStrategy (scheduler.py)
ROUND_ROBIN == "round_robin"
RANDOM == "random"
LEAST_USED == "least_used"
WEIGHTED == "weighted"
FAILOVER == "failover"
RotationStrategy == {ROUND_ROBIN, RANDOM, LEAST_USED, WEIGHTED, FAILOVER}

\* the (address, port) identities tried: two share an address, two share a port
Addresses == {"1.1.1.1", "2.2.2.2"}
Ports == {8080, 3128}
Identities == {<<"1.1.1.1", 8080>>, <<"1.1.1.1", 3128>>, <<"2.2.2.2", 8080>>}
FewIdentities == {<<"1.1.1.1", 8080>>, <<"1.1.1.1", 3128>>}

\* how a probe ends: a 200, another status, an error or timeout that check_single
\* catches, or an exception that leaves check_single
ProbeOutcomes == {"ok200", "non200", "error", "raises"}
HandledOutcomes == {"ok200", "non200", "error"}

\* The envelopes a behaviour is explored in.  "rotation" exercises selection over
\* up to three proxies with few reports; "cooldown" exercises the report and
\* cooldown state machine over up to two proxies with few selections.
RotationScope ==
    [name |-> "rotation", urls |-> Urls, callers |-> Callers, calls |-> MaxCalls,
     reports |-> FewReports, time |-> MaxTime,
     strategies |-> RotationStrategy, max_failures |-> {1}, log |-> {},
     probes |-> 0, rot_calls |-> 0, batches |-> 0, idents |-> {},
     manual |-> FALSE, outcomes |-> HandledOutcomes]
CooldownScope ==
    [name |-> "cooldown", urls |-> {"A", "B"}, callers |-> {"c1"}, calls |-> FewCalls,
     reports |-> MaxReports, time |-> MaxTime,
     strategies |-> {ROUND_ROBIN, FAILOVER}, max_failures |-> 1..MaxMaxFailures,
     log |-> {}, probes |-> 0, rot_calls |-> 0, batches |-> 0, idents |-> {},
     manual |-> FALSE, outcomes |-> HandledOutcomes]
\* "membership" exercises add, remove and reports on members and non-members, and
\* keeps the last such call in last_op
MembershipScope ==
    [name |-> "membership", urls |-> {"A", "B"}, callers |-> {"c1"}, calls |-> FewCalls,
     reports |-> SomeReports, time |-> CooldownSeconds + 1,
     strategies |-> {ROUND_ROBIN}, max_failures |-> {1},
     log |-> {"add_proxy", "remove_proxy", "report_success", "report_failure"},
     probes |-> 0, rot_calls |-> 0, batches |-> 0, idents |-> {},
     manual |-> FALSE, outcomes |-> HandledOutcomes]
Scopes == {RotationScope, CooldownScope, MembershipScope}
\* the scheduler is not instantiated when the api engine runs
ApiScope ==
    [name |-> "api", urls |-> {}, callers |-> {}, calls |-> 0, reports |-> 0, time |-> 0,
     strategies |-> {ROUND_ROBIN}, max_failures |-> {1}, log |-> {},
     probes |-> MaxProbes, rot_calls |-> MaxRotCalls, batches |-> 0, idents |-> Identities,
     manual |-> FALSE, outcomes |-> HandledOutcomes]
\* "manager" exercises ProxyManager.add_proxy and remove_proxy, accepted and
\* rejected, and keeps the last such call in last_op
ManagerScope ==
    [name |-> "manager", urls |-> {}, callers |-> {}, calls |-> 0, reports |-> 0, time |-> 0,
     strategies |-> {ROUND_ROBIN}, max_failures |-> {1},
     log |-> {"mgr_add_proxy", "mgr_remove_proxy"},
     probes |-> FewProbes, rot_calls |-> FewRotCalls, batches |-> 0, idents |-> Identities,
     manual |-> FALSE, outcomes |-> HandledOutcomes]
\* "batch" exercises POST /api/health-check: check_batch over the pool, one batch
\* at a time, while proxies are added and removed
BatchScope ==
    [name |-> "batch", urls |-> {}, callers |-> {}, calls |-> 0, reports |-> 0, time |-> 0,
     strategies |-> {ROUND_ROBIN}, max_failures |-> {1}, log |-> {},
     probes |-> 0, rot_calls |-> 0, batches |-> MaxBatches,
     idents |-> FewIdentities, manual |-> FALSE, outcomes |-> ProbeOutcomes]
\* "selection" exercises ProxyRotator.get_next over proxies that probes or the
\* caller (as tests/test_proxy.py does) made ACTIVE, and keeps the last
\* selection, with its strategy, in last_op
SelectionScope ==
    [name |-> "selection", urls |-> {}, callers |-> {}, calls |-> 0, reports |-> 0, time |-> 0,
     strategies |-> {ROUND_ROBIN}, max_failures |-> {1}, log |-> {"rot_get_next"},
     probes |-> MaxProbes, rot_calls |-> FewRotCalls, batches |-> 0,
     idents |-> FewIdentities, manual |-> TRUE, outcomes |-> HandledOutcomes]
ApiScopes == {ApiScope, ManagerScope, BatchScope, SelectionScope}

\* ProxyStatus (models.py)
ACTIVE == "active"
INACTIVE == "inactive"
CHECKING == "checking"
BANNED == "banned"
ProxyStatus == {ACTIVE, INACTIVE, CHECKING, BANNED}

\* config.supported_protocols, and one protocol outside it
SupportedProtocols == {"http", "https", "socks5"}
ProtocolsTried == {"http", "ftp"}


\* the strategy names handed to ProxyRotator.get_next: the known set and an unknown one
RotatorStrategies == {"round_robin", "random", "latency", "weighted", "bogus"}

Latencies == {1, 2}

VARIABLES
    component,   \* "scheduler" or "api": which engine this behaviour runs
    scope,       \* the envelope of this behaviour, fixed by Init
    config,      \* SchedulerConfig: strategy, max_failures, cooldown_seconds
    proxies,     \* ProxyScheduler._proxies: ProxyStats records in dict (insertion) order
    rr_index,    \* ProxyScheduler._rr_index
    now,         \* time.time()
    pc,          \* per caller task: "idle" or "pending" (get_next coroutine created, not yet run)
    \* history variables (not program state)
    last_call,   \* the last get_next that ran: [ret, n], n = size of its available list
    hist,        \* urls returned by get_next since the available set last changed
    histBy,      \* callers whose get_next contributed to hist
    trail,       \* per url: reports ("F"/"S") since the record was created or its cooldown expired
    cleanRun,    \* per url: the record was not cooling down when its current failure run began
    last_op,     \* in a logging scope: the last logged call, [op, arg, result, seq],
                 \* arg and result each wrapped in a one-element tuple
    \* api.py: ProxyManager, ProxyRotator, HealthChecker
    pool,        \* ProxyManager._pool: Proxy records in list order
    db,          \* the proxies table: rows keyed by (address, port)
    rot_index,   \* ProxyRotator._index
    probing,     \* identities of pool members with a check_single in flight
    batch,       \* the check_batch call in progress: its semaphore and its tasks
    hc_result,   \* <<r>>, r the HealthCheckResult the last check_batch returned; <<>> before
    \* history variables (not program state)
    rot_last,    \* what the last ProxyRotator.get_next returned
    rot_hist     \* identities returned by cursor-advancing calls since the active list last changed

schedVars == <<config, proxies, rr_index, now, pc>>
ghostVars == <<last_call, hist, histBy, trail, cleanRun>>
apiVars == <<pool, db, rot_index, probing, rot_last, rot_hist, batch, hc_result>>
vars == <<component, scope, schedVars, ghostVars, apiVars, last_op>>

\* ------------------------------------------------------------ scheduler.py

\* ProxyStats(proxy_url=url): the dataclass defaults
ProxyStats(url) ==
    [proxy_url |-> url,
     total_requests |-> 0,
     successful_requests |-> 0,
     failed_requests |-> 0,
     consecutive_failures |-> 0,
     is_cooling_down |-> FALSE,
     cooldown_until |-> 0]

Keys(ps) == {ps[i].proxy_url : i \in 1..Len(ps)}
IndexOf(ps, url) == CHOOSE i \in 1..Len(ps) : ps[i].proxy_url = url

RECURSIVE SumTotal(_)
SumTotal(ps) == IF ps = <<>> THEN 0 ELSE Head(ps).total_requests + SumTotal(Tail(ps))

RECURSIVE SumReports(_)
SumReports(ps) ==
    IF ps = <<>> THEN 0
    ELSE Head(ps).successful_requests + Head(ps).failed_requests + SumReports(Tail(ps))

\* mutant: the expiry clears the flag and keeps the streak
ExpireCooldown_KeepsStreak(s, t) ==
    IF s.is_cooling_down /\ t > s.cooldown_until
    THEN [s EXCEPT !.is_cooling_down = FALSE]
    ELSE s

\* mutant: the cooldown expires as soon as the time reaches cooldown_until
ExpireCooldown_Early(s, t) ==
    IF s.is_cooling_down /\ t >= s.cooldown_until
    THEN [s EXCEPT !.is_cooling_down = FALSE, !.consecutive_failures = 0]
    ELSE s

\* _get_available_proxies, the mutation: a stale cooldown is expired in place
ExpireCooldown(s, t) ==
    IF s.is_cooling_down /\ t > s.cooldown_until
    THEN [s EXCEPT !.is_cooling_down = FALSE, !.consecutive_failures = 0]
    ELSE s

ExpireAll(ps, t) == [i \in 1..Len(ps) |-> ExpireCooldown(ps[i], t)]

\* mutant: the filter lets cooling-down proxies through
IsAvailable_Everyone(s) == TRUE

\* _get_available_proxies, the filter: who is appended to the available list
IsAvailable(s) == ~s.is_cooling_down

\* _get_available_proxies, the result: positions (references into the dict) in dict order
RECURSIVE AvailableFrom(_, _)
AvailableFrom(ps, i) ==
    IF i > Len(ps) THEN <<>>
    ELSE (IF IsAvailable(ps[i]) THEN <<i>> ELSE <<>>) \o AvailableFrom(ps, i + 1)

get_available_proxies(ps, t) ==
    LET exp == ExpireAll(ps, t) IN [proxies |-> exp, available |-> AvailableFrom(exp, 1)]

\* mutant: the cursor is reset instead of re-normalised
NormalizedIndex_Reset(rr, n) == 0

\* _round_robin line 90: the cursor re-normalised against the available list
NormalizedIndex(rr, n) == rr % n

\* mutants: the cursor skips one / does not move
AdvancedIndex_Skips(idx) == idx + 2
AdvancedIndex_Stays(idx) == idx

\* _round_robin line 92: the cursor after the selection
AdvancedIndex(idx) == idx + 1

\* mutant: the update of total_requests is lost
CountRequest_Lost(ps, i) == ps

\* the shared tail of the three strategies: total_requests += 1 on the selected record
CountRequest(ps, i) == [ps EXCEPT ![i].total_requests = @ + 1]

\* mutant: a cursor past the end of the list is clamped to the last position
\* instead of wrapped
round_robin_Clamps(ps, avail, rr) ==
    LET idx == IF rr >= Len(avail) THEN Len(avail) - 1 ELSE rr
        sel == avail[idx + 1]
    IN [proxies |-> CountRequest(ps, sel), rr_index |-> AdvancedIndex(idx),
        ret |-> ps[sel].proxy_url]

\* _round_robin
round_robin(ps, avail, rr) ==
    LET idx == NormalizedIndex(rr, Len(avail))
        sel == avail[idx + 1]
    IN [proxies |-> CountRequest(ps, sel), rr_index |-> AdvancedIndex(idx),
        ret |-> ps[sel].proxy_url]

\* mutant: the last minimal element is taken on ties
least_used_LastOnTies(ps, avail, rr) ==
    LET k == CHOOSE k \in 1..Len(avail) :
                 /\ \A j \in 1..Len(avail) : ps[avail[k]].total_requests <= ps[avail[j]].total_requests
                 /\ \A j \in (k + 1)..Len(avail) : ps[avail[j]].total_requests > ps[avail[k]].total_requests
        sel == avail[k]
    IN [proxies |-> CountRequest(ps, sel), rr_index |-> rr, ret |-> ps[sel].proxy_url]

\* min(proxies, key=total_requests): the first minimal element
least_used(ps, avail, rr) ==
    LET k == CHOOSE k \in 1..Len(avail) :
                 /\ \A j \in 1..Len(avail) : ps[avail[k]].total_requests <= ps[avail[j]].total_requests
                 /\ \A j \in 1..(k - 1) : ps[avail[j]].total_requests > ps[avail[k]].total_requests
        sel == avail[k]
    IN [proxies |-> CountRequest(ps, sel), rr_index |-> rr, ret |-> ps[sel].proxy_url]

Max2(a, b) == IF a >= b THEN a ELSE b

\* key(p) < key(q) for key = successful_requests / max(total_requests, 1), by cross-multiplication
RatioLess(p, q) ==
    p.successful_requests * Max2(q.total_requests, 1)
        < q.successful_requests * Max2(p.total_requests, 1)

\* mutant: the last maximal element is taken on ties
failover_LastOnTies(ps, avail, rr) ==
    LET k == CHOOSE k \in 1..Len(avail) :
                 /\ \A j \in 1..Len(avail) : ~RatioLess(ps[avail[k]], ps[avail[j]])
                 /\ \A j \in (k + 1)..Len(avail) : RatioLess(ps[avail[j]], ps[avail[k]])
        sel == avail[k]
    IN [proxies |-> CountRequest(ps, sel), rr_index |-> rr, ret |-> ps[sel].proxy_url]

\* max(proxies, key=...): the first maximal element
failover(ps, avail, rr) ==
    LET k == CHOOSE k \in 1..Len(avail) :
                 /\ \A j \in 1..Len(avail) : ~RatioLess(ps[avail[k]], ps[avail[j]])
                 /\ \A j \in 1..(k - 1) : RatioLess(ps[avail[j]], ps[avail[k]])
        sel == avail[k]
    IN [proxies |-> CountRequest(ps, sel), rr_index |-> rr, ret |-> ps[sel].proxy_url]

\* mutant: the empty-available branch rewinds the cursor
get_next_Rewinds(ps, rr, t, strategy) ==
    LET g == get_available_proxies(ps, t) IN
    IF g.available = <<>>
    THEN [proxies |-> g.proxies, rr_index |-> 0, ret |-> None]
    ELSE IF strategy = ROUND_ROBIN THEN round_robin(g.proxies, g.available, rr)
    ELSE IF strategy = LEAST_USED THEN least_used(g.proxies, g.available, rr)
    ELSE IF strategy = FAILOVER THEN failover(g.proxies, g.available, rr)
    ELSE round_robin(g.proxies, g.available, rr)

\* the body of get_next under the lock
get_next(ps, rr, t, strategy) ==
    LET g == get_available_proxies(ps, t) IN
    IF g.available = <<>>
    THEN [proxies |-> g.proxies, rr_index |-> rr, ret |-> None]
    ELSE IF strategy = ROUND_ROBIN THEN round_robin(g.proxies, g.available, rr)
    ELSE IF strategy = LEAST_USED THEN least_used(g.proxies, g.available, rr)
    ELSE IF strategy = FAILOVER THEN failover(g.proxies, g.available, rr)
    ELSE round_robin(g.proxies, g.available, rr)

\* mutants: a success also ends the cooldown / does not reset the streak
report_success_EndsCooldown(s) ==
    [s EXCEPT !.successful_requests = @ + 1, !.consecutive_failures = 0,
              !.is_cooling_down = FALSE]
report_success_KeepsStreak(s) ==
    [s EXCEPT !.successful_requests = @ + 1]

\* report_success on the record
report_success(s) ==
    [s EXCEPT !.successful_requests = @ + 1, !.consecutive_failures = 0]

\* mutant: the threshold is compared with > instead of >=
report_failure_Late(s, t, cfg) ==
    LET f == [s EXCEPT !.failed_requests = @ + 1, !.consecutive_failures = @ + 1] IN
    IF f.consecutive_failures > cfg.max_failures
    THEN [f EXCEPT !.is_cooling_down = TRUE, !.cooldown_until = t + cfg.cooldown_seconds]
    ELSE f

\* report_failure on the record
report_failure(s, t, cfg) ==
    LET f == [s EXCEPT !.failed_requests = @ + 1, !.consecutive_failures = @ + 1] IN
    IF f.consecutive_failures >= cfg.max_failures
    THEN [f EXCEPT !.is_cooling_down = TRUE, !.cooldown_until = t + cfg.cooldown_seconds]
    ELSE f

\* mutant: the record is assigned without the membership test
add_proxy_Overwrites(ps, url) ==
    IF url \in Keys(ps)
    THEN [ps EXCEPT ![IndexOf(ps, url)] = ProxyStats(url)]
    ELSE Append(ps, ProxyStats(url))

\* add_proxy on the dict: a fresh record at the end if the url is absent
add_proxy(ps, url) ==
    IF url \in Keys(ps) THEN ps ELSE Append(ps, ProxyStats(url))

\* remove_proxy on the dict: pop(proxy_url, None)
remove_proxy(ps, url) == SelectSeq(ps, LAMBDA s : s.proxy_url # url)

\* report_success(proxy_url) on the dict: guarded by "if proxy_url in self._proxies"
on_report_success(ps, url) ==
    IF url \in Keys(ps)
    THEN [ps EXCEPT ![IndexOf(ps, url)] = report_success(@)]
    ELSE ps

\* mutant: an unknown url gets a record (setdefault instead of the membership test)
on_report_failure_Creates(ps, url, t, cfg) ==
    IF url \in Keys(ps)
    THEN [ps EXCEPT ![IndexOf(ps, url)] = report_failure(@, t, cfg)]
    ELSE Append(ps, report_failure(ProxyStats(url), t, cfg))

\* report_failure(proxy_url) on the dict: guarded by "if proxy_url in self._proxies"
on_report_failure(ps, url, t, cfg) ==
    IF url \in Keys(ps)
    THEN [ps EXCEPT ![IndexOf(ps, url)] = report_failure(@, t, cfg)]
    ELSE ps

\* --------------------------------------------------------------- models.py

Ident(p) == <<p.address, p.port>>

\* Proxy(address, port, protocol): the dataclass defaults
Proxy(address, port, protocol) ==
    [address |-> address, port |-> port, protocol |-> protocol, status |-> INACTIVE,
     latency_ms |-> 0, success_count |-> 0, failure_count |-> 0, consecutive_failures |-> 0]

\* Proxy.record_success
record_success(p, latency) ==
    [p EXCEPT !.success_count = @ + 1, !.consecutive_failures = 0,
              !.latency_ms = latency, !.status = ACTIVE]

\* Proxy.record_failure
record_failure(p) ==
    [p EXCEPT !.failure_count = @ + 1, !.consecutive_failures = @ + 1]

\* Proxy.success_rate, a percentage (whole part; the counts here keep it exact
\* enough for the only comparison made on it, against the floor 1.0)
success_rate(p) ==
    LET total == p.success_count + p.failure_count IN
    IF total > 0 THEN (p.success_count * 100) \div total ELSE 0

\* ---------------------------------------------------------- rotator.py

PoolIdents(pl) == {Ident(pl[i]) : i \in 1..Len(pl)}
PoolIndex(pl, id) == CHOOSE i \in 1..Len(pl) : Ident(pl[i]) = id

\* get_next line 44: the ACTIVE proxies, in list order
ActiveList(pl) == SelectSeq(pl, LAMBDA p : p.status = ACTIVE)

\* _round_robin
rot_round_robin(active, idx) ==
    LET i == idx % Len(active) IN [ret |-> {Ident(active[i + 1])}, index |-> i + 1]

\* _random: random.choice, any element
rot_random(active, idx) ==
    [ret |-> {Ident(active[i]) : i \in 1..Len(active)}, index |-> idx]

\* the key of _lowest_latency, compared: latency_ms if > 0 else inf
LatencyLess(p, q) ==
    IF p.latency_ms > 0
    THEN (q.latency_ms > 0 => p.latency_ms < q.latency_ms)
    ELSE FALSE

\* _lowest_latency: min, the first minimal element
rot_lowest_latency(active, idx) ==
    LET k == CHOOSE k \in 1..Len(active) :
                 /\ \A j \in 1..Len(active) : ~LatencyLess(active[j], active[k])
                 /\ \A j \in 1..(k - 1) : LatencyLess(active[k], active[j])
    IN [ret |-> {Ident(active[k])}, index |-> idx]

\* mutant: the weight is the success rate, without the floor
Weight_NoFloor(p) == success_rate(p)

\* _weighted_random line 86: max(p.success_rate, 1.0)
Weight(p) == Max2(success_rate(p), 1)

\* _weighted_random: random.choices, any element of positive weight
rot_weighted_random(active, idx) ==
    [ret |-> {Ident(active[i]) : i \in {j \in 1..Len(active) : Weight(active[j]) > 0}},
     index |-> idx]

\* mutant: the default of strategy_map.get is _random
rot_get_next_DefaultRandom(pl, idx, strategy) ==
    LET active == ActiveList(pl) IN
    IF active = <<>> THEN [ret |-> {NoProxy}, index |-> idx]
    ELSE IF strategy = "round_robin" THEN rot_round_robin(active, idx)
    ELSE IF strategy = "random" THEN rot_random(active, idx)
    ELSE IF strategy = "latency" THEN rot_lowest_latency(active, idx)
    ELSE IF strategy = "weighted" THEN rot_weighted_random(active, idx)
    ELSE rot_random(active, idx)

\* ProxyRotator.get_next: the set of possible results and the cursor afterwards
rot_get_next(pl, idx, strategy) ==
    LET active == ActiveList(pl) IN
    IF active = <<>> THEN [ret |-> {NoProxy}, index |-> idx]
    ELSE IF strategy = "round_robin" THEN rot_round_robin(active, idx)
    ELSE IF strategy = "random" THEN rot_random(active, idx)
    ELSE IF strategy = "latency" THEN rot_lowest_latency(active, idx)
    ELSE IF strategy = "weighted" THEN rot_weighted_random(active, idx)
    ELSE rot_round_robin(active, idx)

\* the strategy names that move the cursor
AdvancesCursor(strategy) == strategy \notin {"random", "latency", "weighted"}

\* ------------------------------------------------------- history helpers

\* the urls get_next would find available at time t
AvailSet(ps, t) ==
    {ps[i].proxy_url : i \in {j \in 1..Len(ps) : IsAvailable(ExpireCooldown(ps[j], t))}}

\* the urls whose cooldown _get_available_proxies expires at time t
Expired(ps, t) == {ps[i].proxy_url : i \in {j \in 1..Len(ps) : ExpireCooldown(ps[j], t) # ps[j]}}

\* hist after a step that is not a selection
KeepWindow(ps2, t2) ==
    IF AvailSet(ps2, t2) = AvailSet(proxies, now)
    THEN UNCHANGED <<hist, histBy>>
    ELSE hist' = <<>> /\ histBy' = {}

\* trail and cleanRun after the records in E had their cooldown expired
ExpireTrail(E) ==
    /\ trail' = [u \in Urls |-> IF u \in E THEN <<>> ELSE trail[u]]
    /\ cleanRun' = [u \in Urls |-> IF u \in E THEN TRUE ELSE cleanRun[u]]

\* last_op after a membership or report call, where the scope keeps it
\* (seq flips at every logged call, so that a repeated call is a step too)
NoOp == [op |-> "none", arg |-> <<>>, result |-> <<>>, seq |-> 0]
Log(op, arg, result) ==
    last_op' = IF op \in scope.log
               THEN [op |-> op, arg |-> <<arg>>, result |-> <<result>>, seq |-> 1 - last_op.seq]
               ELSE last_op

\* no check_batch in progress; n counts the batches started, concurrency keeps the
\* argument of the last one
NoObj == [status |-> "none"]
NoBatch == [running |-> FALSE, n |-> 0, concurrency |-> 0, sem |-> 0, tasks |-> <<>>]

\* ---------------------------------------------------------------- Init

Init ==
    /\ component \in {"scheduler", "api"}
    /\ scope \in IF component = "scheduler" THEN Scopes ELSE ApiScopes
    /\ config \in [strategy : scope.strategies,
                   max_failures : scope.max_failures,
                   cooldown_seconds : {CooldownSeconds}]
    /\ proxies = <<>>
    /\ rr_index = 0
    /\ now = 0
    /\ pc = [c \in Callers |-> "idle"]
    /\ last_call = [ret |-> None, n |-> 0]
    /\ hist = <<>>
    /\ histBy = {}
    /\ trail = [u \in Urls |-> <<>>]
    /\ cleanRun = [u \in Urls |-> TRUE]
    /\ last_op = NoOp
    /\ pool = <<>>
    /\ db = {}
    /\ rot_index = 0
    /\ probing = {}
    /\ batch = NoBatch
    /\ hc_result = <<>>
    /\ rot_last = NoProxy
    /\ rot_hist = <<>>

\* ------------------------------------------------- ProxyScheduler actions

\* add_proxy(proxy_url): inserts a fresh record at the end of the dict if absent
AddProxy(u) ==
    /\ component = "scheduler"
    /\ u \in scope.urls
    /\ proxies' = add_proxy(proxies, u)
    /\ KeepWindow(proxies', now)
    /\ Log("add_proxy", u, None)
    /\ UNCHANGED <<component, scope, config, rr_index, now, pc, last_call, trail, cleanRun>>
    /\ UNCHANGED apiVars

\* remove_proxy(proxy_url): self._proxies.pop(proxy_url, None)
RemoveProxy(u) ==
    /\ component = "scheduler"
    /\ u \in scope.urls
    /\ proxies' = remove_proxy(proxies, u)
    /\ KeepWindow(proxies', now)
    /\ trail' = [trail EXCEPT ![u] = <<>>]
    /\ cleanRun' = [cleanRun EXCEPT ![u] = TRUE]
    /\ Log("remove_proxy", u, None)
    /\ UNCHANGED <<component, scope, config, rr_index, now, pc, last_call>>
    /\ UNCHANGED apiVars

\* a caller task creates the get_next coroutine; it runs when the event loop picks it
Call(c) ==
    /\ component = "scheduler"
    /\ c \in scope.callers
    /\ pc[c] = "idle"
    /\ SumTotal(proxies) + Cardinality({d \in Callers : pc[d] = "pending"}) < scope.calls
    /\ pc' = [pc EXCEPT ![c] = "pending"]
    /\ UNCHANGED <<component, scope, config, proxies, rr_index, now, ghostVars, last_op>>
    /\ UNCHANGED apiVars

\* get_next: the lock is free whenever a task starts (no holder ever suspends inside
\* the critical section, which has no await), so acquire, body and release are one step
GetNext(c) ==
    /\ component = "scheduler"
    /\ pc[c] = "pending"
    /\ LET r == get_next(proxies, rr_index, now, config.strategy) IN
       /\ proxies' = r.proxies
       /\ rr_index' = r.rr_index
       /\ last_call' = [ret |-> r.ret, n |-> Cardinality(AvailSet(proxies, now))]
       /\ IF r.ret = None
          THEN UNCHANGED <<hist, histBy>>
          ELSE hist' = Append(hist, r.ret) /\ histBy' = histBy \cup {c}
    /\ pc' = [pc EXCEPT ![c] = "idle"]
    /\ ExpireTrail(Expired(proxies, now))
    /\ UNCHANGED <<component, scope, config, now, last_op>>
    /\ UNCHANGED apiVars

\* report_success(proxy_url): silent no-op on an unknown url
ReportSuccess(u) ==
    /\ component = "scheduler"
    /\ u \in scope.urls
    /\ SumReports(proxies) < scope.reports
    /\ proxies' = on_report_success(proxies, u)
    /\ IF u \in Keys(proxies)
       THEN /\ trail' = [trail EXCEPT ![u] = Append(@, "S")]
            /\ cleanRun' = [cleanRun EXCEPT ![u] = ~proxies[IndexOf(proxies, u)].is_cooling_down]
       ELSE UNCHANGED <<trail, cleanRun>>
    /\ KeepWindow(proxies', now)
    /\ Log("report_success", u, None)
    /\ UNCHANGED <<component, scope, config, rr_index, now, pc, last_call>>
    /\ UNCHANGED apiVars

\* report_failure(proxy_url): silent no-op on an unknown url
ReportFailure(u) ==
    /\ component = "scheduler"
    /\ u \in scope.urls
    /\ SumReports(proxies) < scope.reports
    /\ proxies' = on_report_failure(proxies, u, now, config)
    /\ trail' = IF u \in Keys(proxies) THEN [trail EXCEPT ![u] = Append(@, "F")] ELSE trail
    /\ KeepWindow(proxies', now)
    /\ Log("report_failure", u, None)
    /\ UNCHANGED <<component, scope, config, rr_index, now, pc, last_call, cleanRun>>
    /\ UNCHANGED apiVars

\* the available_count property: runs _get_available_proxies, which expires cooldowns
AvailableCount ==
    /\ component = "scheduler"
    /\ proxies' = ExpireAll(proxies, now)
    /\ ExpireTrail(Expired(proxies, now))
    /\ UNCHANGED <<component, scope, config, rr_index, now, pc, last_call, hist, histBy, last_op>>
    /\ UNCHANGED apiVars

\* the wall clock advances
Tick ==
    /\ component = "scheduler"
    /\ now < scope.time
    /\ now' = now + 1
    /\ KeepWindow(proxies, now + 1)
    /\ UNCHANGED <<component, scope, config, proxies, rr_index, pc, last_call, trail, cleanRun,
                   last_op>>
    /\ UNCHANGED apiVars

\* ------------------------------------- ProxyManager / HealthChecker / ProxyRotator

RECURSIVE SumProbes(_)
SumProbes(pl) ==
    IF pl = <<>> THEN 0
    ELSE Head(pl).success_count + Head(pl).failure_count + SumProbes(Tail(pl))

\* rot_hist after a step of the manager or the checker
KeepRotWindow(pl2) ==
    rot_hist' = IF ActiveList(pl2) = ActiveList(pool) THEN rot_hist ELSE <<>>

\* ---- HealthChecker: check_single, and check_batch as POST /api/health-check
\* calls it on list(_pool)

\* mutant: the status is left alone when the probe starts
check_single_start_KeepsStatus(p) == p

\* check_single line 49
check_single_start(p) == [p EXCEPT !.status = CHECKING]

\* mutant: the ban threshold is compared with > instead of >=
check_single_finish_LateBan(p, outcome, latency) ==
    IF outcome = "ok200"
    THEN record_success(p, latency)
    ELSE IF outcome = "raises"
    THEN p
    ELSE LET f == record_failure(p) IN
         IF f.consecutive_failures > HcMaxFailures THEN [f EXCEPT !.status = BANNED] ELSE f

\* check_single after the response ("ok200", "non200"), a caught error or timeout
\* ("error"), or an exception outside the except clause ("raises": it leaves
\* check_single before record_failure)
check_single_finish(p, outcome, latency) ==
    IF outcome = "ok200"
    THEN record_success(p, latency)
    ELSE IF outcome = "raises"
    THEN p
    ELSE LET f == record_failure(p) IN
         IF f.consecutive_failures >= HcMaxFailures THEN [f EXCEPT !.status = BANNED] ELSE f

\* what check_single hands to its caller: True, False, or the escaping exception
check_single_returns(outcome) ==
    IF outcome = "ok200" THEN "True" ELSE IF outcome = "raises" THEN "exc" ELSE "False"

\* the Proxy object of a task: the pool's record, or the task's own copy once
\* remove_proxy has dropped the object from the pool (the list given to
\* check_batch still holds it)
TaskObj(pl, t) == IF t.orphan THEN t.obj ELSE pl[PoolIndex(pl, t.id)]

InFlight(b) == {i \in 1..Len(b.tasks) : b.tasks[i].st = "flight"}
Waiting(b) == {i \in 1..Len(b.tasks) : b.tasks[i].st = "waiting"}

\* mutant: bounded_check without the semaphore
sem_free_Unbounded(b, i) == TRUE

\* "async with semaphore" of task i does not block: a permit is left and no
\* earlier task of the batch is still queued for one
sem_free(b, i) == b.sem > 0 /\ \A j \in Waiting(b) : i <= j

\* mutant: the permit is not given back when check_single raises
sem_release_LeaksOnRaise(b, outcome) == IF outcome = "raises" THEN b.sem ELSE b.sem + 1

\* leaving "async with semaphore": the permit is given back however check_single
\* ended
sem_release(b, outcome) == b.sem + 1

\* lines 106-116 up to the await: the semaphore and one bounded_check task per proxy
\* (runs counts the check_single calls made for the task)
check_batch_start(pl, concurrency, n) ==
    [running |-> TRUE, n |-> n + 1, concurrency |-> concurrency, sem |-> concurrency,
     tasks |-> [i \in 1..Len(pl) |->
                   [id |-> Ident(pl[i]), st |-> "waiting", out |-> "none", res |-> "none",
                    orphan |-> FALSE, obj |-> NoObj, runs |-> 0]]]

\* round(x / n, 2), in hundredths
Round2(x, n) == (200 * x + n) \div (2 * n)

RECURSIVE SumLatency(_)
SumLatency(ps) == IF ps = <<>> THEN 0 ELSE Head(ps).latency_ms + SumLatency(Tail(ps))

\* mutant: every truthy result counts as healthy ("if r" instead of "if r is True")
check_batch_result_Truthy(pl, b) ==
    LET objs == [i \in 1..Len(b.tasks) |-> TaskObj(pl, b.tasks[i])]
        healthy == Cardinality({i \in 1..Len(b.tasks) : b.tasks[i].res \in {"True", "exc"}})
        active == SelectSeq(objs, LAMBDA p : p.status = ACTIVE)
    IN [total |-> Len(objs), healthy |-> healthy, unhealthy |-> Len(objs) - healthy,
        avg_latency_x100 |-> IF active # <<>> THEN Round2(SumLatency(active), Len(active)) ELSE 0]

\* lines 118-133: the HealthCheckResult (avg_latency_ms in hundredths;
\* check_duration_s left out)
check_batch_result(pl, b) ==
    LET objs == [i \in 1..Len(b.tasks) |-> TaskObj(pl, b.tasks[i])]
        healthy == Cardinality({i \in 1..Len(b.tasks) : b.tasks[i].res = "True"})
        active == SelectSeq(objs, LAMBDA p : p.status = ACTIVE)
    IN [total |-> Len(objs), healthy |-> healthy, unhealthy |-> Len(objs) - healthy,
        avg_latency_x100 |-> IF active # <<>> THEN Round2(SumLatency(active), Len(active)) ELSE 0]

\* the tasks after remove_proxy took identity id out of the pool list
Orphaned(pl, b, id) ==
    [b EXCEPT !.tasks = [i \in 1..Len(b.tasks) |->
        IF b.tasks[i].id = id /\ ~b.tasks[i].orphan
        THEN [b.tasks[i] EXCEPT !.orphan = TRUE, !.obj = pl[PoolIndex(pl, id)]]
        ELSE b.tasks[i]]]

\* pool and task i after f was applied to the task's Proxy object
WithObj(pl, b, i, new) ==
    IF b.tasks[i].orphan
    THEN [pool |-> pl, task |-> [b.tasks[i] EXCEPT !.obj = new]]
    ELSE [pool |-> [pl EXCEPT ![PoolIndex(pl, b.tasks[i].id)] = new], task |-> b.tasks[i]]

\* ---- ProxyManager

ValueError == "ValueError"

\* mutant: the Proxy is appended before the protocol is validated
mgr_add_proxy_LateValidation(pl, store, a, port, proto) ==
    IF <<a, port>> \in PoolIdents(pl)
    THEN [pool |-> pl, db |-> store, result |-> ValueError]
    ELSE IF proto \notin SupportedProtocols
    THEN [pool |-> Append(pl, Proxy(a, port, proto)), db |-> store, result |-> ValueError]
    ELSE [pool |-> Append(pl, Proxy(a, port, proto)),
          db |-> store \cup {[address |-> a, port |-> port, protocol |-> proto]},
          result |-> "Proxy"]

\* mutant: no duplicate check, the row is written with INSERT OR REPLACE
mgr_add_proxy_Upsert(pl, store, a, port, proto) ==
    IF proto \notin SupportedProtocols
    THEN [pool |-> pl, db |-> store, result |-> ValueError]
    ELSE [pool |-> Append(pl, Proxy(a, port, proto)),
          db |-> {r \in store : ~(r.address = a /\ r.port = port)}
                    \cup {[address |-> a, port |-> port, protocol |-> proto]},
          result |-> "Proxy"]

\* ProxyManager.add_proxy: ValueError (nothing changes) on an unsupported protocol or
\* a duplicate (address, port); otherwise INSERT the row, append the Proxy, return it
mgr_add_proxy(pl, store, a, port, proto) ==
    IF proto \notin SupportedProtocols \/ <<a, port>> \in PoolIdents(pl)
    THEN [pool |-> pl, db |-> store, result |-> ValueError]
    ELSE [pool |-> Append(pl, Proxy(a, port, proto)),
          db |-> store \cup {[address |-> a, port |-> port, protocol |-> proto]},
          result |-> "Proxy"]

MgrAddProxy(a, port, proto) ==
    /\ component = "api"
    /\ Len(pool) < MaxPool
    /\ <<a, port>> \in scope.idents
    /\ LET r == mgr_add_proxy(pool, db, a, port, proto) IN
       /\ pool' = r.pool
       /\ db' = r.db
       /\ Log("mgr_add_proxy", <<a, port, proto>>, r.result)
    /\ KeepRotWindow(pool')
    /\ UNCHANGED <<component, scope, schedVars, ghostVars, rot_index, probing, rot_last>>
    /\ UNCHANGED <<batch, hc_result>>

\* mutant: the pool is filtered and True returned whether or not a row was deleted
mgr_remove_proxy_AlwaysTrue(pl, store, a, port) ==
    [pool |-> SelectSeq(pl, LAMBDA p : ~(p.address = a /\ p.port = port)),
     db |-> {r \in store : ~(r.address = a /\ r.port = port)},
     result |-> "True"]

\* ProxyManager.remove_proxy: DELETE the row; removed = rowcount > 0; the pool is
\* filtered when a row went; returns removed
mgr_remove_proxy(pl, store, a, port) ==
    LET rest == {r \in store : ~(r.address = a /\ r.port = port)}
        removed == rest # store
    IN [pool |-> IF removed
                 THEN SelectSeq(pl, LAMBDA p : ~(p.address = a /\ p.port = port))
                 ELSE pl,
        db |-> rest,
        result |-> IF removed THEN "True" ELSE "False"]

MgrRemoveProxy(a, port) ==
    /\ component = "api"
    /\ LET r == mgr_remove_proxy(pool, db, a, port) IN
       /\ pool' = r.pool
       /\ db' = r.db
       /\ Log("mgr_remove_proxy", <<a, port>>, r.result)
    /\ probing' = probing \cap PoolIdents(pool')
    /\ batch' = IF <<a, port>> \in PoolIdents(pool) /\ <<a, port>> \notin PoolIdents(pool')
                THEN Orphaned(pool, batch, <<a, port>>)
                ELSE batch
    /\ KeepRotWindow(pool')
    /\ UNCHANGED <<component, scope, schedVars, ghostVars, rot_index, rot_last, hc_result>>

\* HealthChecker.check_single up to its first await: status = CHECKING, request sent
CheckStart(id) ==
    /\ component = "api"
    /\ id \in PoolIdents(pool) \ probing
    /\ LET i == PoolIndex(pool, id) IN
       /\ SumProbes(pool) + Cardinality(probing) < scope.probes
       /\ pool' = [pool EXCEPT ![i] = check_single_start(@)]
    /\ probing' = probing \cup {id}
    /\ KeepRotWindow(pool')
    /\ UNCHANGED <<last_op, component, scope, schedVars, ghostVars, db, rot_index, rot_last>>
    /\ UNCHANGED <<batch, hc_result>>

CheckFinish(id, outcome, latency) ==
    /\ component = "api"
    /\ id \in probing
    /\ outcome \in scope.outcomes
    /\ pool' = [pool EXCEPT ![PoolIndex(pool, id)] = check_single_finish(@, outcome, latency)]
    /\ probing' = probing \ {id}
    /\ KeepRotWindow(pool')
    /\ UNCHANGED <<last_op, component, scope, schedVars, ghostVars, db, rot_index, rot_last>>
    /\ UNCHANGED <<batch, hc_result>>

\* ---- HealthChecker.check_batch actions

\* POST /api/health-check: check_batch(manager.get_all_proxies(), concurrency)
BatchStart(concurrency) ==
    /\ component = "api"
    /\ ~batch.running
    /\ batch.n < scope.batches
    /\ batch' = check_batch_start(pool, concurrency, batch.n)
    /\ UNCHANGED <<last_op, component, scope, schedVars, ghostVars>>
    /\ UNCHANGED <<pool, db, rot_index, probing, rot_last, rot_hist, hc_result>>

\* task i enters the semaphore and runs check_single up to its first await
BatchAcquire(i) ==
    /\ component = "api"
    /\ batch.running
    /\ i \in Waiting(batch)
    /\ sem_free(batch, i)
    /\ LET w == WithObj(pool, batch, i, check_single_start(TaskObj(pool, batch.tasks[i]))) IN
       /\ pool' = w.pool
       /\ batch' = [batch EXCEPT !.sem = @ - 1,
                                 !.tasks[i] = [w.task EXCEPT !.st = "flight", !.runs = @ + 1]]
    /\ KeepRotWindow(pool')
    /\ UNCHANGED <<last_op, component, scope, schedVars, ghostVars>>
    /\ UNCHANGED <<db, rot_index, probing, rot_last, hc_result>>

\* the probe of task i ends: check_single finishes and the semaphore is released
BatchFinish(i, outcome, latency) ==
    /\ component = "api"
    /\ batch.running
    /\ i \in InFlight(batch)
    /\ outcome \in scope.outcomes
    /\ LET w == WithObj(pool, batch, i,
                        check_single_finish(TaskObj(pool, batch.tasks[i]), outcome, latency)) IN
       /\ pool' = w.pool
       /\ batch' = [batch EXCEPT !.sem = sem_release(batch, outcome),
                                 !.tasks[i] = [w.task EXCEPT !.st = "done", !.out = outcome,
                                                             !.res = check_single_returns(outcome)]]
    /\ KeepRotWindow(pool')
    /\ UNCHANGED <<last_op, component, scope, schedVars, ghostVars>>
    /\ UNCHANGED <<db, rot_index, probing, rot_last, hc_result>>

\* gather has every result: check_batch aggregates and returns
BatchReturn ==
    /\ component = "api"
    /\ batch.running
    /\ \A i \in 1..Len(batch.tasks) : batch.tasks[i].st = "done"
    /\ hc_result' = <<check_batch_result(pool, batch)>>
    /\ batch' = [NoBatch EXCEPT !.n = batch.n, !.concurrency = batch.concurrency]
    /\ UNCHANGED <<last_op, component, scope, schedVars, ghostVars>>
    /\ UNCHANGED <<pool, db, rot_index, probing, rot_last, rot_hist>>

\* GET /api/proxies/next: rotator.get_next(manager.get_all_proxies(), strategy)
RotGetNext(strategy) ==
    /\ component = "api"
    /\ scope.rot_calls > 0
    /\ AdvancesCursor(strategy) => Len(rot_hist) < scope.rot_calls
    /\ LET r == rot_get_next(pool, rot_index, strategy) IN
       /\ rot_index' = r.index
       /\ \E x \in r.ret :
            /\ rot_last' = x
            /\ rot_hist' = IF AdvancesCursor(strategy) /\ x # NoProxy
                           THEN Append(rot_hist, x) ELSE rot_hist
            /\ Log("rot_get_next", strategy, x)
    /\ UNCHANGED <<component, scope, schedVars, ghostVars, pool, db, probing>>
    /\ UNCHANGED <<batch, hc_result>>

\* the caller sets p.status = ProxyStatus.ACTIVE on a Proxy it holds, as
\* tests/test_proxy.py does with the object add_proxy returned
CallerActivates(id) ==
    /\ component = "api"
    /\ scope.manual
    /\ id \in PoolIdents(pool)
    /\ pool' = [pool EXCEPT ![PoolIndex(pool, id)].status = ACTIVE]
    /\ KeepRotWindow(pool')
    /\ UNCHANGED <<last_op, component, scope, schedVars, ghostVars>>
    /\ UNCHANGED <<db, rot_index, probing, rot_last>>
    /\ UNCHANGED <<batch, hc_result>>

NextScheduler ==
    \/ \E u \in Urls : AddProxy(u)
    \/ \E u \in Urls : RemoveProxy(u)
    \/ \E c \in Callers : Call(c)
    \/ \E c \in Callers : GetNext(c)
    \/ \E u \in Urls : ReportSuccess(u)
    \/ \E u \in Urls : ReportFailure(u)
    \/ AvailableCount
    \/ Tick

NextApi ==
    \/ \E id \in Identities, proto \in ProtocolsTried : MgrAddProxy(id[1], id[2], proto)
    \/ \E id \in Identities : MgrRemoveProxy(id[1], id[2])
    \/ \E id \in Identities : CheckStart(id)
    \/ \E id \in Identities, outcome \in ProbeOutcomes, latency \in Latencies :
           CheckFinish(id, outcome, latency)
    \/ \E strategy \in RotatorStrategies : RotGetNext(strategy)

\* the api with health checks run by POST /api/health-check
NextBatch ==
    \/ \E id \in Identities, proto \in ProtocolsTried : MgrAddProxy(id[1], id[2], proto)
    \/ \E id \in Identities : MgrRemoveProxy(id[1], id[2])
    \/ \E k \in 1..MaxConcurrency : BatchStart(k)
    \/ \E i \in 1..MaxPool : BatchAcquire(i)
    \/ \E i \in 1..MaxPool, outcome \in ProbeOutcomes, latency \in Latencies :
           BatchFinish(i, outcome, latency)
    \/ BatchReturn

\* the api with callers that set the status themselves
NextSelection ==
    \/ NextApi
    \/ \E id \in Identities : CallerActivates(id)

Next == NextScheduler \/ NextApi \/ NextBatch \/ NextSelection

\* both engines, every scope and strategy
Spec == Init /\ [][Next]_vars

\* the round-robin engines: ProxyScheduler with ROUND_ROBIN in the rotation scope, and the api
InitRR ==
    /\ Init
    /\ component = "scheduler" => (scope = RotationScope /\ config.strategy = ROUND_ROBIN)
    /\ component = "api" => scope = ApiScope

SpecRR == InitRR /\ [][NextScheduler \/ NextApi]_vars

\* ProxyScheduler in the cooldown scope
InitCooldown == Init /\ component = "scheduler" /\ scope = CooldownScope

SpecCooldown == InitCooldown /\ [][NextScheduler]_vars

\* ProxyScheduler in the membership scope
InitMembership == Init /\ component = "scheduler" /\ scope = MembershipScope

SpecMembership == InitMembership /\ [][NextScheduler]_vars

\* both engines in the scopes that keep last_op
InitOps == Init /\ scope \in {MembershipScope, ManagerScope}

SpecOps == InitOps /\ [][NextScheduler \/ NextApi]_vars

\* the api in the batch scope
InitBatch == Init /\ component = "api" /\ scope = BatchScope

SpecBatch == InitBatch /\ [][NextBatch]_vars

\* the batch scope under the event loop's scheduling: a task that can enter the
\* semaphore does, gather returns once every task is done, and every probe ends
\* (each has its own timeout)
SpecBatchFair ==
    /\ SpecBatch
    /\ \A i \in 1..MaxPool : WF_vars(BatchAcquire(i))
    /\ \A i \in 1..MaxPool :
          WF_vars(\E outcome \in ProbeOutcomes, latency \in Latencies : BatchFinish(i, outcome, latency))
    /\ WF_vars(BatchReturn)

\* the api with health checks run directly and by POST /api/health-check
InitApi == Init /\ component = "api" /\ scope \in {ApiScope, BatchScope}

SpecApi == InitApi /\ [][NextApi \/ NextBatch]_vars

\* the api in the selection scope
InitSelection == Init /\ component = "api" /\ scope = SelectionScope

SpecSelection == InitSelection /\ [][NextSelection]_vars

\* ProxyScheduler with the strategies other than ROUND_ROBIN and FAILOVER, in the
\* rotation scope
InitStrategies ==
    /\ Init /\ component = "scheduler" /\ scope = RotationScope
    /\ config.strategy \in {RANDOM, LEAST_USED, WEIGHTED}

SpecStrategies == InitStrategies /\ [][NextScheduler]_vars

\* ------------------------------------------------------ claim vocabulary

\* a step in which some caller's get_next ran
GetNextStep == \E c \in Callers : pc[c] = "pending" /\ pc'[c] = "idle"

\* a step in which report_failure / report_success hit the record of member u
ReportFailureStep(u) == trail'[u] = Append(trail[u], "F")
ReportSuccessStep(u) == trail'[u] = Append(trail[u], "S")

\* a step in which a cursor-advancing ProxyRotator.get_next returned a proxy
RotAdvanceStep == rot_hist' = Append(rot_hist, rot_last')

\* a step of ProxyRotator.get_next (any strategy) that changed something
RotStep ==
    /\ component = "api"
    /\ UNCHANGED <<pool, db, probing, batch, hc_result>>
    /\ last_op'.seq = last_op.seq \/ last_op'.op = "rot_get_next"

Last(h) == h[Len(h)]
Count(h, u) == Cardinality({i \in 1..Len(h) : h[i] = u})
CeilDiv(n, m) == (n + m - 1) \div m
Rec(ps, u) == ps[IndexOf(ps, u)]

\* the url after u in the cyclic dict order of ps
SuccUrl(ps, u) == ps[(IndexOf(ps, u) % Len(ps)) + 1].proxy_url
\* the identity after id in the cyclic list order of pl
SuccIdent(pl, id) == Ident(pl[(PoolIndex(pl, id) % Len(pl)) + 1])

EndsWith(h, suffix) ==
    Len(h) >= Len(suffix) /\ SubSeq(h, Len(h) - Len(suffix) + 1, Len(h)) = suffix

\* the number of "F" at the end of a trail
RECURSIVE TrailingF(_)
TrailingF(h) ==
    IF h = <<>> \/ Last(h) # "F" THEN 0 ELSE 1 + TrailingF(SubSeq(h, 1, Len(h) - 1))

\* u is in cooldown at time t: flagged, and t has not passed cooldown_until
InCooldown(s, t) == s.is_cooling_down /\ t <= s.cooldown_until

\* a step that is the logged call op(arg)
Logged(op, arg) ==
    last_op'.seq # last_op.seq /\ last_op'.op = op /\ last_op'.arg = <<arg>>

\* a step in which check_batch returned
BatchReturnStep == batch.running /\ ~batch'.running

\* the results ProxyScheduler.get_next can return in the current state: the body
\* under the lock draws nothing at random, so there is exactly one
SchedulerResults == {get_next(proxies, rr_index, now, config.strategy).ret}

\* the status of pool member id
StatusOf(pl, id) == pl[PoolIndex(pl, id)].status

\* ------------------------------------------------------------------ claims

\* C1: round-robin cycle.  With every pool member available, a ROUND_ROBIN get_next
\* that follows another one with no change of the available set in between returns
\* the proxy after the previous result in cyclic pool order, and the first selection
\* of a scheduler returns the first proxy of the pool; ProxyRotator's cursor-advancing
\* get_next does the same over a pool of ACTIVE proxies.
C1_RoundRobinCycle ==
    [][ /\ (GetNextStep /\ proxies # <<>> /\ AvailSet(proxies, now) = Keys(proxies))
            => /\ hist # <<>> => last_call'.ret = SuccUrl(proxies, Last(hist))
               /\ rr_index = 0 => last_call'.ret = proxies[1].proxy_url
        /\ (RotAdvanceStep /\ ActiveList(pool) = pool)
            => /\ rot_hist # <<>> => rot_last' = SuccIdent(pool, Last(rot_hist))
               /\ rot_index = 0 => rot_last' = Ident(pool[1])
      ]_vars

\* C1 witness: pool A,B,C in that order, four selections returned A,B,C,A
C1_Witness ==
    /\ Len(proxies) = 3
    /\ <<proxies[1].proxy_url, proxies[2].proxy_url, proxies[3].proxy_url>> = <<"A", "B", "C">>
    /\ hist = <<"A", "B", "C", "A">>

\* the rotator half of C1 happens too: three ACTIVE proxies, the cursor wrapped
C1_RotatorWrapped ==
    /\ Len(pool) = 3 /\ ActiveList(pool) = pool
    /\ Len(rot_hist) = 4 /\ rot_hist[4] = rot_hist[1] /\ rot_hist[1] = Ident(pool[1])

\* C2: round-robin fairness under concurrent callers.  Among the N selections made
\* while the available set stayed the same m >= 1 proxies, each available proxy was
\* returned at most ceil(N / m) times, and at least once when N >= m.
C2_RoundRobinFair ==
    (component = "scheduler" /\ AvailSet(proxies, now) # {}) =>
        LET A == AvailSet(proxies, now)
            m == Cardinality(A)
            N == Len(hist)
        IN \A u \in A : /\ Count(hist, u) <= CeilDiv(N, m)
                         /\ N >= m => Count(hist, u) >= 1

\* C2 witness: both callers selected within one window of three available proxies,
\* more selections than proxies
C2_Witness ==
    /\ Cardinality(AvailSet(proxies, now)) = 3
    /\ Len(hist) = 4
    /\ histBy = Callers

\* C3 as stated: two consecutive get_next calls, each with >= 2 available proxies,
\* return different proxies whatever happened between them
C3_Original ==
    [][ (GetNextStep /\ config.strategy = ROUND_ROBIN /\ last_call.n >= 2
            /\ Cardinality(AvailSet(proxies, now)) >= 2)
        => last_call'.ret # last_call.ret ]_vars

\* C3 amended: two consecutive ROUND_ROBIN get_next calls with >= 2 available proxies
\* return different proxies when the available set did not change between them
C3_NoRepeatStableSet ==
    [][ (GetNextStep /\ config.strategy = ROUND_ROBIN /\ hist # <<>>
            /\ Cardinality(AvailSet(proxies, now)) >= 2)
        => last_call'.ret # Last(hist) ]_vars

\* C3 witness: two selections in one window of a pool with a cooling-down member
C3_Witness ==
    /\ config.strategy = ROUND_ROBIN
    /\ Len(hist) >= 2
    /\ Cardinality(AvailSet(proxies, now)) = 2
    /\ Len(proxies) = 3

FFSF == <<"F", "F", "S", "F">>

\* C4 as stated: after failure, failure, success, failure with max_failures = 2 the
\* proxy is not cooling down
C4_Original ==
    \A u \in Keys(proxies) :
        (config.max_failures = 2 /\ EndsWith(trail[u], FFSF))
            => ~Rec(proxies, u).is_cooling_down

\* C4 amended: after failure, failure, success, failure with max_failures = 2 and no
\* cooldown expiry in between, the streak reads 1 and the proxy is still cooling down
C4_StreakResetStillCooling ==
    \A u \in Keys(proxies) :
        (config.max_failures = 2 /\ EndsWith(trail[u], FFSF))
            => /\ Rec(proxies, u).consecutive_failures = 1
               /\ Rec(proxies, u).is_cooling_down
               /\ u \in AvailSet(proxies, now) => now > Rec(proxies, u).cooldown_until

\* C4 witness: the four reports happened on a proxy with max_failures = 2
C4_Witness ==
    \E u \in Keys(proxies) : config.max_failures = 2 /\ trail[u] = FFSF

\* C5: get_next returns only a pool member that is not in cooldown, under every strategy
C5_OnlyAvailableReturned ==
    [][ (GetNextStep /\ last_call'.ret # None)
        => /\ last_call'.ret \in Keys(proxies)
           /\ ~InCooldown(Rec(proxies, last_call'.ret), now)
           /\ ~Rec(proxies', last_call'.ret).is_cooling_down ]_vars

\* C5 witness: a selection was made while another pool member was in cooldown
C5_Witness ==
    /\ hist # <<>>
    /\ \E i \in 1..Len(proxies) : InCooldown(proxies[i], now)
    /\ config.strategy = FAILOVER

\* C6: a get_next call made after the time has passed cooldown_until of a cooling-down
\* proxy clears is_cooling_down, zeroes consecutive_failures and has the proxy in its
\* available list
C6_CooldownExpiry ==
    [][ GetNextStep =>
        \A i \in 1..Len(proxies) :
            (proxies[i].is_cooling_down /\ now > proxies[i].cooldown_until)
            => /\ ~proxies'[i].is_cooling_down
               /\ proxies'[i].consecutive_failures = 0
               /\ \E k \in 1..Len(get_available_proxies(proxies, now).available) :
                      get_available_proxies(proxies, now).available[k] = i
               /\ last_call'.ret # None ]_vars

\* C6 witness: a proxy that cooled down (failures, no success) is selected again
C6_Witness ==
    \E i \in 1..Len(proxies) :
        /\ proxies[i].failed_requests >= config.max_failures
        /\ proxies[i].successful_requests = 0
        /\ ~proxies[i].is_cooling_down
        /\ proxies[i].consecutive_failures = 0
        /\ proxies[i].total_requests = 1
        /\ last_call.ret = proxies[i].proxy_url
        /\ now > proxies[i].cooldown_until

\* what report_failure does to the record of u in one step
FailureStepExact(u) ==
    LET s == Rec(proxies, u)
        f == Rec(proxies', u)
    IN /\ f.failed_requests = s.failed_requests + 1
       /\ f.consecutive_failures = s.consecutive_failures + 1
       /\ IF f.consecutive_failures >= config.max_failures
          THEN f.is_cooling_down /\ f.cooldown_until = now + config.cooldown_seconds
          ELSE f.is_cooling_down = s.is_cooling_down /\ f.cooldown_until = s.cooldown_until
       /\ f.total_requests = s.total_requests
       /\ f.successful_requests = s.successful_requests

\* C7 as stated: report_failure increments both counters by one and starts the cooldown
\* exactly at the threshold; k failures with no success between leave the proxy cooling
\* down, fewer than k from a streak of 0 leave it not cooling down
C7_Original ==
    [][ \A u \in Urls : ReportFailureStep(u) =>
            /\ FailureStepExact(u)
            /\ TrailingF(trail'[u]) >= config.max_failures => Rec(proxies', u).is_cooling_down
            /\ TrailingF(trail'[u]) < config.max_failures => ~Rec(proxies', u).is_cooling_down
      ]_vars

\* C7 amended: as C7, with "fewer than k do not" limited to a failure run that began
\* on a record that was not cooling down (and runs counted since the last expiry)
C7_FailureThreshold ==
    [][ \A u \in Urls : ReportFailureStep(u) =>
            /\ FailureStepExact(u)
            /\ TrailingF(trail'[u]) >= config.max_failures => Rec(proxies', u).is_cooling_down
            /\ (TrailingF(trail'[u]) < config.max_failures /\ cleanRun[u])
                   => ~Rec(proxies', u).is_cooling_down
      ]_vars

\* C7 witness: max_failures = 2, the second failure in a row just started the cooldown
C7_Witness ==
    \E u \in Keys(proxies) :
        /\ config.max_failures = 2
        /\ trail[u] = <<"F", "F">>
        /\ Rec(proxies, u).is_cooling_down
        /\ Rec(proxies, u).cooldown_until = now + config.cooldown_seconds

\* C8: selection on an empty available set returns None and changes nothing:
\* ProxyScheduler.get_next when the pool is empty or every proxy is in cooldown,
\* ProxyRotator.get_next when no proxy is ACTIVE
C8_EmptySelection ==
    [][ /\ GetNextStep =>
            /\ (AvailSet(proxies, now) = {}) <=> (last_call'.ret = None)
            /\ (\A i \in 1..Len(proxies) : InCooldown(proxies[i], now))
                   => (last_call'.ret = None /\ proxies' = proxies /\ rr_index' = rr_index)
        /\ (RotStep /\ ActiveList(pool) = <<>>)
            => (rot_last' = NoProxy /\ rot_index' = rot_index)
      ]_vars

\* C8 witness: a get_next found every proxy of a non-empty pool in cooldown, the
\* cursor having advanced before
C8_Witness ==
    /\ last_call = [ret |-> None, n |-> 0]
    /\ proxies # <<>>
    /\ \A i \in 1..Len(proxies) : InCooldown(proxies[i], now)
    /\ rr_index >= 1

\* the rotator half of C8 happens too: a call on a pool with no ACTIVE proxy, cursor advanced before
C8_RotatorEmpty ==
    /\ rot_last = NoProxy /\ pool # <<>> /\ ActiveList(pool) = <<>> /\ rot_index >= 1

\* C9: a get_next that returns a proxy adds exactly 1 to that proxy's total_requests
\* and changes no other; a step that removes no record changes the pool's sum of
\* total_requests by 1 when it is such a get_next and by 0 otherwise
C9_ExactBookkeeping ==
    [][ /\ GetNextStep =>
            /\ Keys(proxies') = Keys(proxies)
            /\ \A u \in Keys(proxies) :
                   Rec(proxies', u).total_requests =
                       Rec(proxies, u).total_requests + (IF u = last_call'.ret THEN 1 ELSE 0)
        /\ Keys(proxies) \subseteq Keys(proxies') =>
               SumTotal(proxies') =
                   SumTotal(proxies) + (IF GetNextStep /\ last_call'.ret # None THEN 1 ELSE 0)
      ]_vars

\* C9 witness: both callers selected, a third call is pending, nothing was lost
C9_Witness ==
    /\ histBy = Callers
    /\ \E c \in Callers : pc[c] = "pending"
    /\ Len(hist) = 3
    /\ SumTotal(proxies) = 3
    /\ config.strategy = LEAST_USED

\* C10: report_success on a member adds exactly 1 to successful_requests, zeroes
\* consecutive_failures and changes nothing else in that or any other record
C10_ReportSuccess ==
    [][ \A u \in Urls : ReportSuccessStep(u) =>
            LET s == Rec(proxies, u) IN
            /\ Len(proxies') = Len(proxies)
            /\ \A i \in 1..Len(proxies) :
                   proxies'[i] = IF proxies[i].proxy_url = u
                                 THEN [s EXCEPT !.successful_requests = s.successful_requests + 1,
                                                !.consecutive_failures = 0]
                                 ELSE proxies[i]
            /\ rr_index' = rr_index
      ]_vars

\* C10 witness: a success after a failure, beside another record that has counters
C10_Witness ==
    \E u \in Keys(proxies) :
        /\ EndsWith(trail[u], <<"F", "S">>)
        /\ Rec(proxies, u).successful_requests = 1
        /\ Rec(proxies, u).failed_requests = 1
        /\ Rec(proxies, u).consecutive_failures = 0
        /\ \E v \in Keys(proxies) \ {u} : Rec(proxies, v).failed_requests = 1

\* C11: report_success and report_failure with a url that is not in the pool (never
\* added, or removed, also between the get_next that returned it and the report)
\* raise nothing and leave the whole scheduler state unchanged: no record is
\* created and no counter of any proxy changes.
C11_UnknownReportNoOp ==
    [][\A u \in Urls :
          ((Logged("report_success", u) \/ Logged("report_failure", u))
              /\ u \notin Keys(proxies))
          => /\ last_op'.result = <<None>>
             /\ UNCHANGED <<config, proxies, rr_index, now, pc>>]_vars

\* a report_failure for a url that get_next returned and that was removed before
\* the report arrived, while another proxy with counted requests is in the pool
C11_Witness ==
    /\ last_op.op = "report_failure"
    /\ last_op.arg[1] \notin Keys(proxies)
    /\ last_call.ret = last_op.arg[1]
    /\ \E i \in 1..Len(proxies) : proxies[i].total_requests > 0

\* C13: ProxyScheduler.add_proxy is idempotent.  With a url already in the pool it
\* leaves the pool size and every field of the existing record unchanged; with an
\* absent url it adds exactly one record, with all counters 0 and not cooling down.
C13_AddIdempotent ==
    [][\A u \in Urls :
          Logged("add_proxy", u)
          => IF u \in Keys(proxies)
             THEN proxies' = proxies
             ELSE /\ Len(proxies') = Len(proxies) + 1
                  /\ Keys(proxies') = Keys(proxies) \cup {u}
                  /\ \A v \in Keys(proxies) : Rec(proxies', v) = Rec(proxies, v)
                  /\ LET s == Rec(proxies', u) IN
                     /\ s.total_requests = 0 /\ s.successful_requests = 0
                     /\ s.failed_requests = 0 /\ s.consecutive_failures = 0
                     /\ ~s.is_cooling_down]_vars

\* add_proxy was just called for a member that has been selected, has failed and
\* is cooling down
C13_Witness ==
    /\ last_op.op = "add_proxy"
    /\ last_op.arg[1] \in Keys(proxies)
    /\ LET s == Rec(proxies, last_op.arg[1]) IN
       s.total_requests > 0 /\ s.failed_requests > 0 /\ s.is_cooling_down

\* C12: a rejected add is atomic.  ProxyManager.add_proxy with an (address, port)
\* already in the pool, or with a protocol outside the supported set, raises
\* ValueError and leaves the in-memory pool and the persisted store unchanged.
C12_RejectedAddAtomic ==
    [][\A id \in Identities, proto \in ProtocolsTried :
          (Logged("mgr_add_proxy", <<id[1], id[2], proto>>)
              /\ (id \in PoolIdents(pool) \/ proto \notin SupportedProtocols))
          => /\ last_op'.result = <<ValueError>>
             /\ UNCHANGED <<pool, db>>]_vars

\* a duplicate add was just rejected for a proxy that a probe has already changed
C12_Witness ==
    /\ last_op.op = "mgr_add_proxy"
    /\ last_op.result = <<ValueError>>
    /\ <<last_op.arg[1][1], last_op.arg[1][2]>> \in PoolIdents(pool)
    /\ last_op.arg[1][3] \in SupportedProtocols
    /\ pool[PoolIndex(pool, <<last_op.arg[1][1], last_op.arg[1][2]>>)].status # INACTIVE

\* an add with an unsupported protocol was just rejected for a new identity
C12_BadProtocolRejected ==
    /\ last_op.op = "mgr_add_proxy"
    /\ last_op.result = <<ValueError>>
    /\ <<last_op.arg[1][1], last_op.arg[1][2]>> \notin PoolIdents(pool)
    /\ pool # <<>>

\* C14: removal of a non-member is a harmless no-op.  ProxyManager.remove_proxy
\* returns True and deletes the record (pool and store) when the identity is
\* present, and returns False, changing neither pool nor store, when it is absent
\* (so a second removal of the same identity returns False); ProxyScheduler.remove_proxy
\* on an absent url raises nothing and leaves the pool unchanged.
C14_RemoveAbsentNoOp ==
    [][/\ \A id \in Identities :
             Logged("mgr_remove_proxy", id)
             => IF id \in PoolIdents(pool)
                THEN /\ last_op'.result = <<"True">>
                     /\ pool' = SelectSeq(pool, LAMBDA p : Ident(p) # id)
                     /\ db' = {r \in db : <<r.address, r.port>> # id}
                     /\ id \notin PoolIdents(pool')
                ELSE /\ last_op'.result = <<"False">>
                     /\ UNCHANGED <<pool, db>>
       /\ \A u \in Urls :
             (Logged("remove_proxy", u) /\ u \notin Keys(proxies))
             => /\ last_op'.result = <<None>>
                /\ UNCHANGED <<config, proxies, rr_index, now, pc>>]_vars

\* ProxyManager.remove_proxy just returned False for an identity that is absent
\* while another proxy is in the pool
C14_Witness ==
    /\ last_op.op = "mgr_remove_proxy"
    /\ last_op.result = <<"False">>
    /\ last_op.arg[1] \notin PoolIdents(pool)
    /\ pool # <<>>

\* ProxyScheduler.remove_proxy was just called for a url that is absent while a
\* selected proxy is in the pool
C14_SchedulerAbsent ==
    /\ last_op.op = "remove_proxy"
    /\ last_op.arg[1] \notin Keys(proxies)
    /\ \E i \in 1..Len(proxies) : proxies[i].total_requests > 0

\* C15: once the health-check path has marked a proxy BANNED, the proxy stays
\* BANNED under every later check_single / check_batch run and selection (only a
\* manual reset takes it out of BANNED): no step changes the status of a proxy
\* that stays in the pool from BANNED to anything else.
C15_BannedStaysBanned ==
    [][\A id \in Identities :
          (id \in PoolIdents(pool) /\ StatusOf(pool, id) = BANNED /\ id \in PoolIdents(pool'))
          => StatusOf(pool', id) = BANNED]_vars

\* C16: bounded probe concurrency.  While check_batch(proxies, concurrency) runs,
\* the number of its check_single executions in flight is at most concurrency.
C16_BoundedConcurrency ==
    batch.running => Cardinality(InFlight(batch)) <= batch.concurrency

\* every permit is taken while a further task of the batch waits for one
C16_Witness ==
    /\ batch.running
    /\ Cardinality(InFlight(batch)) = batch.concurrency
    /\ Waiting(batch) # {}

\* C17: batch aggregation.  check_batch returns total = the number of proxies
\* given, healthy = the number of probes that got a 200 (check_single returned
\* True), unhealthy = total - healthy, whatever the other probes did (non-200,
\* error or timeout, an exception leaving check_single).
C17_BatchAggregation ==
    [][BatchReturnStep
       => LET ok == {i \in 1..Len(batch.tasks) : batch.tasks[i].out = "ok200"} IN
          /\ hc_result'[1].total = Len(batch.tasks)
          /\ hc_result'[1].healthy = Cardinality(ok)
          /\ hc_result'[1].unhealthy = Len(batch.tasks) - Cardinality(ok)]_vars

\* a batch over two proxies returned one healthy and one unhealthy
C17_Witness ==
    /\ ~batch.running
    /\ hc_result # <<>>
    /\ hc_result[1].total = 2 /\ hc_result[1].healthy = 1 /\ hc_result[1].unhealthy = 1

\* C18: check_single outcome.  When the probe succeeds the proxy ends ACTIVE with
\* consecutive_failures = 0 and success_count incremented by 1, and the call
\* returns True; when it fails (network error, timeout, non-200) failure_count and
\* consecutive_failures are each incremented by 1, the call returns False without
\* raising, and the proxy is BANNED exactly when consecutive_failures has reached
\* max_failures.
C18_CheckSingleOutcome ==
    [][\A i \in 1..MaxPool :
          (batch.running /\ i \in InFlight(batch) /\ batch'.tasks[i].st = "done")
          => LET p == TaskObj(pool, batch.tasks[i])
                 q == TaskObj(pool', batch'.tasks[i])
                 t == batch'.tasks[i]
             IN /\ t.out = "ok200"
                   => /\ q.status = ACTIVE
                      /\ q.consecutive_failures = 0
                      /\ q.success_count = p.success_count + 1
                      /\ q.failure_count = p.failure_count
                      /\ t.res = "True"
                /\ t.out \in {"non200", "error"}
                   => /\ q.failure_count = p.failure_count + 1
                      /\ q.consecutive_failures = p.consecutive_failures + 1
                      /\ q.success_count = p.success_count
                      /\ t.res = "False"
                      /\ q.status = BANNED <=> q.consecutive_failures >= HcMaxFailures]_vars

\* in one batch a probe of a once-failed proxy failed again and banned it, and a
\* probe of a proxy with an earlier failure succeeded
C18_Witness ==
    /\ batch.running
    /\ \E i, j \in 1..Len(batch.tasks) :
          /\ batch.tasks[i].st = "done" /\ batch.tasks[i].out = "error"
          /\ TaskObj(pool, batch.tasks[i]).status = BANNED
          /\ batch.tasks[j].st = "done" /\ batch.tasks[j].out = "ok200"
          /\ TaskObj(pool, batch.tasks[j]).failure_count > 0
          /\ TaskObj(pool, batch.tasks[j]).consecutive_failures = 0

\* the proxies ProxyRotator.get_next can return in this state with strategy
\* (none when it returns None)
PossibleResults(strategy) ==
    LET r == rot_get_next(pool, rot_index, strategy).ret IN
    IF r = {NoProxy} THEN {} ELSE r

Attempts(p) == p.success_count + p.failure_count

\* C19 as stated: under the weighted strategy a proxy in the pool with zero prior
\* attempts is a possible result of selection.
C19_Original ==
    \A i \in 1..Len(pool) :
        Attempts(pool[i]) = 0 => Ident(pool[i]) \in PossibleResults("weighted")

\* C19, amended: under the weighted strategy the possible results of selection are
\* exactly the ACTIVE proxies of the pool, whatever their success rate and also
\* with zero prior attempts (the weight is floored at 1.0); a proxy that is not
\* ACTIVE, as a newly added one is until a probe of it succeeds, is not a
\* possible result.
C19_WeightedFloorActive ==
    \A i \in 1..Len(pool) :
        Ident(pool[i]) \in PossibleResults("weighted") <=> pool[i].status = ACTIVE

\* the weighted strategy just returned a proxy with zero attempts, which the
\* caller had marked ACTIVE, while an ACTIVE proxy with success rate 100 competed
C19_Witness ==
    /\ last_op.op = "rot_get_next"
    /\ last_op.arg[1] = "weighted"
    /\ last_op.result[1] \in PoolIdents(pool)
    /\ Attempts(pool[PoolIndex(pool, last_op.result[1])]) = 0
    /\ pool[PoolIndex(pool, last_op.result[1])].status = ACTIVE
    /\ \E i \in 1..Len(pool) : pool[i].status = ACTIVE /\ success_rate(pool[i]) = 100

\* ratio(p) < ratio(q) for ratio = successful_requests / (successful_requests +
\* failed_requests), 0 without reported attempts, by cross-multiplication
ReportedRatioLess(p, q) ==
    p.successful_requests * Max2(q.successful_requests + q.failed_requests, 1)
        < q.successful_requests * Max2(p.successful_requests + p.failed_requests, 1)

\* a FAILOVER get_next step that finds some proxy available
FailoverStep == GetNextStep /\ config.strategy = FAILOVER /\ AvailSet(proxies, now) # {}

\* C20 as stated: get_next with FAILOVER returns the available proxy whose ratio
\* successful_requests / (successful_requests + failed_requests) (0 without
\* reported attempts) is highest, the first in pool order among equals.
C20_Original ==
    [][FailoverStep
       => LET r == last_call'.ret IN
          /\ r \in AvailSet(proxies, now)
          /\ \A v \in AvailSet(proxies, now) :
                /\ ~ReportedRatioLess(Rec(proxies, r), Rec(proxies, v))
                /\ IndexOf(proxies, v) < IndexOf(proxies, r)
                      => ReportedRatioLess(Rec(proxies, v), Rec(proxies, r))]_vars

\* C20, amended: get_next with FAILOVER returns the available proxy whose value
\* successful_requests / max(total_requests, 1), reported successes over
\* selections, is highest among the available proxies, the first in pool order
\* among equals.
C20_FailoverBySelections ==
    [][FailoverStep
       => LET r == last_call'.ret IN
          /\ r \in AvailSet(proxies, now)
          /\ \A v \in AvailSet(proxies, now) :
                /\ ~RatioLess(Rec(proxies, r), Rec(proxies, v))
                /\ IndexOf(proxies, v) < IndexOf(proxies, r)
                      => RatioLess(Rec(proxies, v), Rec(proxies, r))]_vars

\* a FAILOVER selection over two available proxies passed over the first one,
\* which has a reported failure, and returned the second, which has a success
C20_Witness ==
    /\ config.strategy = FAILOVER
    /\ last_call.n = 2
    /\ Len(proxies) = 2
    /\ last_call.ret = proxies[2].proxy_url
    /\ proxies[1].failed_requests > 0 /\ proxies[1].total_requests > 0
    /\ proxies[2].successful_requests > 0

\* C21: least-used selection.  A LEAST_USED get_next on a non-empty available set
\* returns an available proxy whose total_requests is minimal among the available
\* ones, the first such in pool order; and with two fresh proxies, both available,
\* the selection after the first returns the other proxy.
C21_LeastUsed ==
    [][ (GetNextStep /\ config.strategy = LEAST_USED /\ AvailSet(proxies, now) # {})
        => LET A == AvailSet(proxies, now)
               r == last_call'.ret
           IN /\ r \in A
              /\ \A v \in A : Rec(proxies, r).total_requests <= Rec(proxies, v).total_requests
              /\ \A v \in A : Rec(proxies, v).total_requests = Rec(proxies, r).total_requests
                                  => IndexOf(proxies, r) <= IndexOf(proxies, v)
              /\ (Len(proxies) = 2 /\ A = Keys(proxies) /\ Len(hist) = 1
                    /\ SumTotal(proxies) = 1 /\ Rec(proxies, hist[1]).total_requests = 1)
                  => r # hist[1]
      ]_vars

\* C21 witness: LEAST_USED passed over the first record of the pool, available but
\* used more, after two selections over fresh proxies returned different proxies
C21_Witness ==
    /\ config.strategy = LEAST_USED
    /\ Len(proxies) >= 2 /\ AvailSet(proxies, now) = Keys(proxies)
    /\ Len(hist) = 3 /\ hist[1] # hist[2]
    /\ last_call.ret = hist[3]
    /\ last_call.ret # proxies[1].proxy_url
    /\ proxies[1].total_requests > 1

\* C22: random strategy.  With RotationStrategy.RANDOM every proxy of the current
\* available set is a possible result of a get_next call, whatever the previous
\* call returned.
C22_RandomAnyAvailable ==
    (component = "scheduler" /\ config.strategy = RANDOM)
        => \A u \in AvailSet(proxies, now) : u \in SchedulerResults

\* C23: lenient strategy default.  ProxyRotator.get_next with a strategy name outside
\* {round_robin, random, latency, weighted} returns (never raises) what round_robin
\* returns on the same state, the ACTIVE proxy under the re-normalised cursor, and
\* leaves the cursor one past it; with no ACTIVE proxy it returns None and leaves
\* the cursor alone.
C23_LenientDefault ==
    [][ Logged("rot_get_next", "bogus")
        => LET active == ActiveList(pool) IN
           IF active = <<>>
           THEN last_op'.result = <<NoProxy>> /\ rot_index' = rot_index
           ELSE /\ last_op'.result = <<Ident(active[(rot_index % Len(active)) + 1])>>
                /\ <<rot_last'>> = last_op'.result
                /\ rot_index' = (rot_index % Len(active)) + 1
      ]_vars

\* C23 witness: a call with the unknown name returned the second of two ACTIVE
\* proxies, the cursor having advanced in an earlier call
C23_Witness ==
    /\ last_op.op = "rot_get_next" /\ last_op.arg[1] = "bogus"
    /\ Len(ActiveList(pool)) = 2
    /\ last_op.result = <<Ident(ActiveList(pool)[2])>>
    /\ rot_index = 2

\* the available records at time t, in pool order
AvailSeq(ps, t) == SelectSeq(ps, LAMBDA s : ~InCooldown(s, t))

\* the first available url after u in the cyclic pool order of ps (u itself when
\* no other is available)
NextAvailAfter(ps, t, u) ==
    LET n == Len(ps)
        at(d) == ((IndexOf(ps, u) - 1 + d) % n) + 1
        d == CHOOSE d \in 1..n :
                 /\ ~InCooldown(ps[at(d)], t)
                 /\ \A e \in 1..(d - 1) : InCooldown(ps[at(e)], t)
    IN ps[at(d)].proxy_url

\* C24 as stated: when the available set changed between two ROUND_ROBIN get_next
\* calls, the second returns the next available proxy after the previously
\* returned one in cyclic pool order (checked where the previous one is still in
\* the pool).
C24_Original ==
    [][ (GetNextStep /\ config.strategy = ROUND_ROBIN /\ hist = <<>>
            /\ last_call.ret \in Keys(proxies) /\ AvailSet(proxies, now) # {})
        => last_call'.ret = NextAvailAfter(proxies, now, last_call.ret) ]_vars

\* C24, amended: a ROUND_ROBIN get_next over m >= 1 available proxies, also after
\* the available set shrank or grew, returns the proxy at position
\* (cursor mod m) of the current available list in pool order and leaves the
\* cursor one past that position; while the set stays the same this is the next
\* available proxy after the previous result.
C24_CursorRenormalised ==
    [][ (GetNextStep /\ config.strategy = ROUND_ROBIN /\ AvailSet(proxies, now) # {})
        => LET av == AvailSeq(proxies, now)
               m == Len(av)
           IN /\ last_call'.ret = av[(rr_index % m) + 1].proxy_url
              /\ rr_index' = (rr_index % m) + 1
              /\ hist # <<>> => last_call'.ret = NextAvailAfter(proxies, now, Last(hist))
      ]_vars

\* C24 witness: the first ROUND_ROBIN selection after the available set of a pool of
\* three shrank to two found the cursor at the end of the list and wrapped it
C24_Witness ==
    /\ config.strategy = ROUND_ROBIN
    /\ Len(proxies) = 3 /\ Cardinality(AvailSet(proxies, now)) = 2
    /\ Len(hist) = 1 /\ last_call.ret = hist[1]
    /\ rr_index = 1
    /\ SumTotal(proxies) >= 3

\* a step that ran _get_available_proxies: a get_next, or a read of available_count
\* (which changes nothing but records, and only by expiring cooldowns)
ExpiryStep ==
    \/ GetNextStep
    \/ /\ proxies' = ExpireAll(proxies, now)
       /\ UNCHANGED <<rr_index, now, pc, last_call, hist>>

\* C25: cooldown exit discipline.  For a record that stays in the pool,
\* is_cooling_down goes from true to false only in a step in which the current time
\* exceeds its cooldown_until, and consecutive_failures is 0 after that step; the
\* step is one that computes the available list, never a report_success,
\* report_failure or add_proxy.
C25_CooldownExit ==
    [][ \A u \in Keys(proxies) \cap Keys(proxies') :
            (Rec(proxies, u).is_cooling_down /\ ~Rec(proxies', u).is_cooling_down)
            => /\ now > Rec(proxies, u).cooldown_until
               /\ Rec(proxies', u).consecutive_failures = 0
               /\ ExpiryStep
               /\ \A v \in Urls : ~ReportSuccessStep(v) /\ ~ReportFailureStep(v)
               /\ Keys(proxies') = Keys(proxies)
      ]_vars

\* C25 witness: a record left its cooldown after the time had passed cooldown_until;
\* it has a reported success, which reset nothing but the streak, and its streak is 0
C25_Witness ==
    \E u \in Keys(proxies) :
        /\ Rec(proxies, u).cooldown_until > 0
        /\ ~Rec(proxies, u).is_cooling_down
        /\ now > Rec(proxies, u).cooldown_until
        /\ Rec(proxies, u).consecutive_failures = 0
        /\ Rec(proxies, u).successful_requests >= 1
        /\ Rec(proxies, u).failed_requests >= config.max_failures
        /\ trail[u] = <<>>

\* C26: batch termination and coverage.  For every concurrency >= 1 and every list
\* of proxies, also one longer than concurrency, a check_batch that was started
\* returns, given that every probe ends; when it returns every proxy of the list
\* has been probed exactly once, no task is waiting or in flight, and every
\* semaphore permit has been given back.
C26_BatchTerminates ==
    /\ [][BatchReturnStep
          => /\ \A i \in 1..Len(batch.tasks) :
                    batch.tasks[i].st = "done" /\ batch.tasks[i].runs = 1
             /\ Waiting(batch) = {} /\ InFlight(batch) = {}
             /\ batch.sem = batch.concurrency]_vars
    /\ [][\A i \in 1..MaxPool :
            (batch.running /\ batch'.running /\ i <= Len(batch.tasks))
            => batch'.tasks[i].runs >= batch.tasks[i].runs /\ batch'.tasks[i].runs <= 1]_vars
    /\ (batch.running ~> ~batch.running)

\* C26 witness: a check_batch with concurrency 1 over two proxies has returned; one
\* of its probes had left check_single with an exception
C26_Witness ==
    /\ ~batch.running /\ batch.n >= 1 /\ batch.concurrency = 1
    /\ hc_result # <<>>
    /\ hc_result[1].total = 2
    /\ hc_result[1].healthy = 1
    /\ Len(pool) = 2 /\ \E i \in 1..2 : pool[i].status = CHECKING

\* pool member i has a check_single in flight, called directly or by a check_batch
ProbeInFlight(i) ==
    \/ Ident(pool[i]) \in probing
    \/ \E t \in InFlight(batch) : batch.tasks[t].id = Ident(pool[i]) /\ ~batch.tasks[t].orphan

\* C27: CHECKING is a transient status.  A proxy of the pool that has no probe in
\* flight is not CHECKING; so a proxy that was ACTIVE and failed one probe below
\* the ban threshold is not left CHECKING when check_single has returned.
C27_CheckingTransient ==
    \A i \in 1..Len(pool) : ~ProbeInFlight(i) => pool[i].status # CHECKING

\* C28: after a check_batch over the pool's (distinct) proxies, no other batch
\* running meanwhile, the proxies of the list that are ACTIVE are exactly those
\* whose probe in this batch returned True: their number is the reported healthy
\* count, and avg_latency_ms is 0 when healthy is 0.
C28_ActiveAreHealthy ==
    [][BatchReturnStep
       => LET n == Len(batch.tasks)
              active == {i \in 1..n : TaskObj(pool, batch.tasks[i]).status = ACTIVE}
          IN /\ \A i \in 1..n : i \in active <=> batch.tasks[i].res = "True"
             /\ hc_result'[1].healthy = Cardinality(active)
             /\ hc_result'[1].healthy = 0 => hc_result'[1].avg_latency_x100 = 0]_vars

\* C28 witness: the second batch over two proxies has returned with one healthy; the
\* other proxy, ACTIVE after the first batch, failed its probe and is not ACTIVE
C28_Witness ==
    /\ ~batch.running /\ batch.n = 2
    /\ hc_result # <<>> /\ hc_result[1].total = 2 /\ hc_result[1].healthy = 1
    /\ Len(pool) = 2
    /\ \E i, j \in 1..2 :
          /\ pool[i].status = ACTIVE /\ pool[i].success_count >= 1
          /\ pool[j].status # ACTIVE /\ pool[j].success_count = 1 /\ pool[j].failure_count = 1
          /\ pool[j].consecutive_failures = 1

\* the (address, port) keys of the rows of the proxies table
StoreIdents(store) == {<<r.address, r.port>> : r \in store}

\* C29: pool/store consistency.  After every sequence of ProxyManager.add_proxy and
\* remove_proxy calls, accepted or rejected, no two records of the in-memory pool
\* share (address, port), no two rows of the store do, and the pool and the store
\* hold the same identities.
C29_PoolStoreConsistent ==
    /\ \A i, j \in 1..Len(pool) : Ident(pool[i]) = Ident(pool[j]) => i = j
    /\ Cardinality(StoreIdents(db)) = Cardinality(db)
    /\ PoolIdents(pool) = StoreIdents(db)

\* C29 witness: a duplicate add was just rejected while pool and store hold two
\* proxies, one of them probed since it was added
C29_Witness ==
    /\ last_op.op = "mgr_add_proxy" /\ last_op.result = <<ValueError>>
    /\ Len(pool) = 2 /\ Cardinality(db) = 2
    /\ <<last_op.arg[1][1], last_op.arg[1][2]>> \in PoolIdents(pool)
    /\ \E i \in 1..2 : pool[i].status # INACTIVE

====
